---- MODULE Spec2Model ----
(***************************************************************************)
(* ReactiveVector<T> (src/reactive_vector.hpp): a std::vector<T> wrapper   *)
(* that emits one signal per effective mutation through its SignalEmitter. *)
(*                                                                         *)
(* T is modelled as a trivially copyable value type (T = int), so a copy,  *)
(* a move and an in-place construction all yield the same element value.   *)
(* The SignalEmitter is an external include; `events` is the sequence of    *)
(* signals the vector hands to signal_emitter.emit(), each with the values *)
(* an observer reads from its reference members while emit() runs, and     *)
(* `valid` telling whether those references refer to live objects.         *)
(*                                                                         *)
(* Every method is one atomic action (the class is single threaded and     *)
(* emit() is synchronous).  `last` records the most recent call: its       *)
(* arguments, what it returned, whether it threw, and the state before it. *)
(* `mirror` and `size_mirror` belong to an observer that is connected to   *)
(* all six signals and rebuilds the contents and the size from them alone. *)
(***************************************************************************)
EXTENDS Integers, Sequences, FiniteSets, TLC

\* ---------------------------------------------------------------- bounds
\* largest size() the callers let the vector reach
MaxSize == 3
\* calls are made while fewer than MaxEvents signals have been emitted
MaxEvents == 2
\* largest argument the callers pass to reserve
MaxReserve == MaxSize + 1

\* T() for T = int
DefaultValue == 0
\* the element values the callers use
Values == {DefaultValue, 1}
\* the element values of the usage scenario
ScenValues == {1, 2, 9}
\* what a read through a reference to freed storage may yield
Garbage == Values

\* "no such argument / nothing returned" filler of the call record
None == 0 - 1

VARIABLES vec_, cap, events, last, scen, mirror, size_mirror

vars == <<vec_, cap, events, last, scen, mirror, size_mirror>>

\* ---------------------------------------------------------------- signals
Inserted(i, v, ok) == [kind |-> "Inserted", index |-> i, value |-> v, valid |-> ok]

\* mutant: old and new value passed in the wrong order
Updated_swapped(i, old, new) ==
    [kind |-> "Updated", index |-> i, old_value |-> new, new_value |-> old, valid |-> TRUE]

Updated(i, old, new) ==
    [kind |-> "Updated", index |-> i, old_value |-> old, new_value |-> new, valid |-> TRUE]

Erased(i, old) == [kind |-> "Erased", index |-> i, old_value |-> old, valid |-> TRUE]

Cleared == [kind |-> "Cleared"]

Reserved(c) == [kind |-> "Reserved", new_capacity |-> c]

Resized(old, new) == [kind |-> "Resized", old_size |-> old, new_size |-> new]

\* signal_emitter.emit(sig): the log records the signals handed to emit(), in
\* the order of the emit() calls
emit(log, sig) == Append(log, sig)

\* ---------------------------------------------------------------- std::vector
\* mutant: the storage never grows
Capacities_stuck(old, need) == {old}

\* capacity after an operation that needs room for `need` elements: unchanged
\* when it already fits, otherwise implementation defined and at least `need`
\* (an exact fit, or geometric growth of the old capacity)
Capacities(old, need) ==
    IF need <= old THEN {old} ELSE {need, IF 2 * old > need THEN 2 * old ELSE need}

\* vec_.erase(pos) for the element at 0-based index k
EraseAt(s, k) == [j \in 1..(Len(s) - 1) |-> IF j <= k THEN s[j] ELSE s[j + 1]]

\* mutant: vec_.resize(n), the fill value is dropped
ResizeTo_default(s, n, value) ==
    [j \in 1..n |-> IF j <= Len(s) THEN s[j] ELSE DefaultValue]

\* vec_.resize(n, value)
ResizeTo(s, n, value) == [j \in 1..n |-> IF j <= Len(s) THEN s[j] ELSE value]

\* vec_[i] = v for a 0-based index i
StoreAt(s, i, v) == [s EXCEPT ![i + 1] = v]

\* mutant: the first element is removed instead of the last
DropLast_front(s) == SubSeq(s, 2, Len(s))

\* vec_.pop_back()
DropLast(s) == SubSeq(s, 1, Len(s) - 1)

\* ---------------------------------------------------------------- call record
Pre == [vec |-> vec_, cap |-> cap, events |-> events]

Call(op, index, value, n, src, ret, retb, threw) ==
    [op |-> op, index |-> index, value |-> value, n |-> n, src |-> src,
     ret |-> ret, retb |-> retb, threw |-> threw, pre |-> Pre]

\* the calls of the usage scenario, in order
Scenario ==
    << [op |-> "push_back", index |-> None, value |-> 1],
       [op |-> "push_back", index |-> None, value |-> 2],
       [op |-> "update_if_exists", index |-> 0, value |-> 9],
       [op |-> "pop_back", index |-> None, value |-> None] >>

\* how many leading calls of the run are the scenario's, None once the run left it
ScenNext(c) ==
    IF scen # None /\ scen < Len(Scenario)
       /\ Scenario[scen + 1] = [op |-> c.op, index |-> c.index, value |-> c.value]
       /\ c.src = None
    THEN scen + 1
    ELSE None

\* ---------------------------------------------------------------- observer
\* the observer's copy of the contents after one signal; a signal that does
\* not fit the copy (possible only once the copy is out of step) is applied
\* as far as it can be
Replay(m, e) ==
    CASE e.kind = "Inserted" ->
           LET at == IF e.index <= Len(m) THEN e.index ELSE Len(m)
           IN SubSeq(m, 1, at) \o <<e.value>> \o SubSeq(m, at + 1, Len(m))
      [] e.kind = "Updated" ->
           IF e.index < Len(m) THEN [m EXCEPT ![e.index + 1] = e.new_value] ELSE m
      [] e.kind = "Erased" ->
           IF e.index < Len(m)
           THEN SubSeq(m, 1, e.index) \o SubSeq(m, e.index + 2, Len(m))
           ELSE m
      [] e.kind = "Cleared" -> <<>>
      [] OTHER -> m

\* the observer's copy of the size after one signal
ReplaySize(n, e) ==
    CASE e.kind = "Inserted" -> n + 1
      [] e.kind = "Erased" -> IF n > 0 THEN n - 1 ELSE 0
      [] e.kind = "Cleared" -> 0
      [] e.kind = "Resized" -> e.new_size
      [] OTHER -> n

RECURSIVE ReplayAll(_, _)
ReplayAll(m, sigs) ==
    IF sigs = <<>> THEN m ELSE ReplayAll(Replay(m, Head(sigs)), Tail(sigs))

RECURSIVE ReplaySizeAll(_, _)
ReplaySizeAll(n, sigs) ==
    IF sigs = <<>> THEN n ELSE ReplaySizeAll(ReplaySize(n, Head(sigs)), Tail(sigs))

\* the signals delivered during the call that is returning
Delivered == SubSeq(events', Len(events) + 1, Len(events'))

Returns(c) ==
    /\ last' = c
    /\ scen' = ScenNext(c)
    /\ mirror' = ReplayAll(mirror, Delivered)
    /\ size_mirror' = ReplaySizeAll(size_mirror, Delivered)

CanCall == Len(events) < MaxEvents

\* ---------------------------------------------------------------- constructors
\* mutant: vec_(n), the value is dropped
FillOf_default(n, value) == [j \in 1..n |-> DefaultValue]

\* vec_(n, value)
FillOf(n, value) == [j \in 1..n |-> value]

\* the lists the callers construct from
InitLists == UNION {[1..n -> Values] : n \in 0..MaxSize}

Init ==
    /\ events = <<>>
    /\ \/ /\ vec_ = <<>>
          /\ cap \in Capacities(0, 0)
          /\ last = [op |-> "ReactiveVector()", index |-> None, value |-> None, n |-> None,
                     src |-> None, ret |-> None, retb |-> FALSE, threw |-> FALSE,
                     pre |-> [vec |-> <<>>, cap |-> 0, events |-> <<>>]]
          /\ scen = 0
       \/ \E n \in 0..MaxSize, value \in Values :
            /\ vec_ = FillOf(n, value)
            /\ cap \in Capacities(0, n)
            /\ last = [op |-> "ReactiveVector(n, value)", index |-> None, value |-> value,
                       n |-> n, src |-> None, ret |-> None, retb |-> FALSE, threw |-> FALSE,
                       pre |-> [vec |-> <<>>, cap |-> 0, events |-> <<>>]]
            /\ scen = IF n = 0 THEN 0 ELSE None
       \/ \E init \in InitLists :
            /\ vec_ = init
            /\ cap \in Capacities(0, Len(init))
            /\ last = [op |-> "ReactiveVector(init)", index |-> None, value |-> None,
                       n |-> Len(init), src |-> None, ret |-> None, retb |-> FALSE,
                       threw |-> FALSE, pre |-> [vec |-> <<>>, cap |-> 0, events |-> <<>>],
                       init |-> init]
            /\ scen = IF init = <<>> THEN 0 ELSE None
    \* the observer starts from the constructed contents
    /\ mirror = vec_
    /\ size_mirror = Len(vec_)

\* ---------------------------------------------------------------- operations
\* mutant: the index is vec_.size() instead of vec_.size() - 1
push_back_index_size(value, src) ==
    /\ Len(vec_) < MaxSize
    /\ src # None => (src < Len(vec_) /\ value = vec_[src + 1])
    /\ vec_' = Append(vec_, value)
    /\ cap' \in Capacities(cap, Len(vec_) + 1)
    /\ LET ok == src = None \/ cap' = cap
       IN \E seen \in (IF ok THEN {value} ELSE Garbage) :
            events' = emit(events, Inserted(Len(vec_'), seen, ok))
    /\ Returns(Call("push_back", None, value, None, src, None, FALSE, FALSE))

\* push_back(const T &value); src is the index of the element of this vector
\* the argument refers to (v.push_back(v[src])), None for an object of the caller
push_back(value, src) ==
    /\ Len(vec_) < MaxSize
    /\ src # None => (src < Len(vec_) /\ value = vec_[src + 1])
    /\ vec_' = Append(vec_, value)
    /\ cap' \in Capacities(cap, Len(vec_) + 1)
    /\ LET \* `value` refers to the old buffer, freed when the append reallocated
           ok == src = None \/ cap' = cap
       IN \E seen \in (IF ok THEN {value} ELSE Garbage) :
            events' = emit(events, Inserted(Len(vec_') - 1, seen, ok))
    /\ Returns(Call("push_back", None, value, None, src, None, FALSE, FALSE))

\* push_back(T &&value)
push_back_move(value) ==
    /\ Len(vec_) < MaxSize
    /\ vec_' = Append(vec_, value)
    /\ cap' \in Capacities(cap, Len(vec_) + 1)
    /\ events' = emit(events, Inserted(Len(vec_') - 1, vec_'[Len(vec_')], TRUE))
    /\ Returns(Call("push_back", None, value, None, None, None, FALSE, FALSE))

\* emplace_back(args...), where T(args...) is `value`; returns vec_.back()
emplace_back(value) ==
    /\ Len(vec_) < MaxSize
    /\ vec_' = Append(vec_, value)
    /\ cap' \in Capacities(cap, Len(vec_) + 1)
    /\ events' = emit(events, Inserted(Len(vec_') - 1, vec_'[Len(vec_')], TRUE))
    /\ Returns(Call("emplace_back", None, value, None, None, vec_'[Len(vec_')], FALSE, FALSE))

\* mutant: the index is taken after the element is gone
pop_back_index_after ==
    /\ IF vec_ = <<>>
       THEN UNCHANGED <<vec_, cap, events>>
       ELSE LET old_value == vec_[Len(vec_)]
            IN /\ vec_' = DropLast(vec_)
               /\ cap' = cap
               /\ events' = emit(events, Erased(Len(vec_') - 1, old_value))
    /\ Returns(Call("pop_back", None, None, None, None, None, FALSE, FALSE))

pop_back ==
    /\ IF vec_ = <<>>
       THEN UNCHANGED <<vec_, cap, events>>
       ELSE LET index == Len(vec_) - 1
                old_value == vec_[Len(vec_)]
            IN /\ vec_' = DropLast(vec_)
               /\ cap' = cap
               /\ events' = emit(events, Erased(index, old_value))
    /\ Returns(Call("pop_back", None, None, None, None, None, FALSE, FALSE))

\* mutant: the emptiness test is missing
clear_unguarded ==
    /\ vec_' = <<>>
    /\ cap' = cap
    /\ events' = emit(events, Cleared)
    /\ Returns(Call("clear", None, None, None, None, None, FALSE, FALSE))

clear ==
    /\ IF vec_ # <<>>
       THEN /\ vec_' = <<>>
            /\ cap' = cap
            /\ events' = emit(events, Cleared)
       ELSE UNCHANGED <<vec_, cap, events>>
    /\ Returns(Call("clear", None, None, None, None, None, FALSE, FALSE))

\* mutant: the new capacity is compared with the request, not the old capacity
reserve_vs_request(new_cap) ==
    /\ cap' \in Capacities(cap, new_cap)
    /\ vec_' = vec_
    /\ events' = IF cap' # new_cap THEN emit(events, Reserved(cap')) ELSE events
    /\ Returns(Call("reserve", None, None, new_cap, None, None, FALSE, FALSE))

reserve(new_cap) ==
    /\ LET old_cap == cap
       IN /\ cap' \in Capacities(cap, new_cap)
          /\ vec_' = vec_
          /\ events' = IF cap' # old_cap THEN emit(events, Reserved(cap')) ELSE events
    /\ Returns(Call("reserve", None, None, new_cap, None, None, FALSE, FALSE))

\* mutant: only growth is reported (new_size > old_size)
resize_grow_only(new_size, value) ==
    /\ LET old_size == Len(vec_)
       IN /\ vec_' = ResizeTo(vec_, new_size, value)
          /\ cap' \in Capacities(cap, new_size)
          /\ events' = IF new_size > old_size
                       THEN emit(events, Resized(old_size, new_size))
                       ELSE events
    /\ Returns(Call("resize", None, value, new_size, None, None, FALSE, FALSE))

\* mutant: growth is reported like an append, as Inserted for the last new slot
resize_emits_inserted(new_size, value) ==
    /\ LET old_size == Len(vec_)
       IN /\ vec_' = ResizeTo(vec_, new_size, value)
          /\ cap' \in Capacities(cap, new_size)
          /\ events' = IF new_size > old_size
                       THEN emit(events, Inserted(new_size - 1, value, TRUE))
                       ELSE IF new_size # old_size
                            THEN emit(events, Resized(old_size, new_size))
                            ELSE events
    /\ Returns(Call("resize", None, value, new_size, None, None, FALSE, FALSE))

resize(new_size, value) ==
    /\ LET old_size == Len(vec_)
       IN /\ vec_' = ResizeTo(vec_, new_size, value)
          /\ cap' \in Capacities(cap, new_size)
          /\ events' = IF new_size # old_size
                       THEN emit(events, Resized(old_size, new_size))
                       ELSE events
    /\ Returns(Call("resize", None, value, new_size, None, None, FALSE, FALSE))

update_if_exists(index, new_value) ==
    /\ IF index >= Len(vec_)
       THEN /\ UNCHANGED <<vec_, cap, events>>
            /\ Returns(Call("update_if_exists", index, new_value, None, None, None, FALSE, FALSE))
       ELSE LET old_value == vec_[index + 1]
            IN /\ vec_' = StoreAt(vec_, index, new_value)
               /\ cap' = cap
               /\ events' = emit(events, Updated(index, old_value, vec_'[index + 1]))
               /\ Returns(Call("update_if_exists", index, new_value, None, None, None, TRUE, FALSE))

\* mutant: *pos is read after vec_.erase(pos), when the next element (or the
\* stale last one) is there
erase_old_after(index) ==
    /\ index < Len(vec_)
    /\ LET old_value == IF index + 1 < Len(vec_) THEN vec_[index + 2] ELSE vec_[index + 1]
       IN /\ vec_' = EraseAt(vec_, index)
          /\ cap' = cap
          /\ events' = emit(events, Erased(index, old_value))
    /\ Returns(Call("erase", index, None, None, None, index, FALSE, FALSE))

\* erase(pos) for pos = begin() + index, a dereferenceable iterator; returns the
\* iterator following the erased element, as its distance from begin()
erase(index) ==
    /\ index < Len(vec_)
    /\ LET old_value == vec_[index + 1]
       IN /\ vec_' = EraseAt(vec_, index)
          /\ cap' = cap
          /\ events' = emit(events, Erased(index, old_value))
    /\ Returns(Call("erase", index, None, None, None, index, FALSE, FALSE))

\* ---------------------------------------------------------------- reads, element access
empty ==
    /\ UNCHANGED <<vec_, cap, events>>
    /\ Returns(Call("empty", None, None, None, None, None, vec_ = <<>>, FALSE))

size ==
    /\ UNCHANGED <<vec_, cap, events>>
    /\ Returns(Call("size", None, None, None, None, Len(vec_), FALSE, FALSE))

capacity ==
    /\ UNCHANGED <<vec_, cap, events>>
    /\ Returns(Call("capacity", None, None, None, None, cap, FALSE, FALSE))

\* v[i] as an rvalue, i < size() (unchecked: out of range is undefined behaviour)
subscript_read(i) ==
    /\ i < Len(vec_)
    /\ UNCHANGED <<vec_, cap, events>>
    /\ Returns(Call("operator[]", i, None, None, None, vec_[i + 1], FALSE, FALSE))

\* mutant: the subscript write notifies like update_if_exists
subscript_write_notifying(i, value) ==
    /\ i < Len(vec_)
    /\ vec_' = StoreAt(vec_, i, value)
    /\ cap' = cap
    /\ events' = emit(events, Updated(i, vec_[i + 1], value))
    /\ Returns(Call("operator[]=", i, value, None, None, None, FALSE, FALSE))

\* v[i] = value, i < size()
subscript_write(i, value) ==
    /\ i < Len(vec_)
    /\ vec_' = StoreAt(vec_, i, value)
    /\ UNCHANGED <<cap, events>>
    /\ Returns(Call("operator[]=", i, value, None, None, None, FALSE, FALSE))

\* v.at(i) as an rvalue: std::out_of_range when i >= size()
at_read(i) ==
    /\ UNCHANGED <<vec_, cap, events>>
    /\ IF i < Len(vec_)
       THEN Returns(Call("at", i, None, None, None, vec_[i + 1], FALSE, FALSE))
       ELSE Returns(Call("at", i, None, None, None, None, FALSE, TRUE))

\* mutant: vec_[i] instead of vec_.at(i), nothing is thrown out of range
at_write_unchecked(i, value) ==
    /\ IF i < Len(vec_)
       THEN /\ vec_' = StoreAt(vec_, i, value)
            /\ UNCHANGED <<cap, events>>
       ELSE UNCHANGED <<vec_, cap, events>>
    /\ Returns(Call("at=", i, value, None, None, None, FALSE, FALSE))

\* v.at(i) = value: std::out_of_range when i >= size()
at_write(i, value) ==
    /\ IF i < Len(vec_)
       THEN /\ vec_' = StoreAt(vec_, i, value)
            /\ UNCHANGED <<cap, events>>
            /\ Returns(Call("at=", i, value, None, None, None, FALSE, FALSE))
       ELSE /\ UNCHANGED <<vec_, cap, events>>
            /\ Returns(Call("at=", i, value, None, None, None, FALSE, TRUE))

\* ---------------------------------------------------------------- behaviours
Indexes == 0..MaxSize

Next ==
    \/ \E value \in Values, src \in {None} \cup Indexes : CanCall /\ push_back(value, src)
    \/ \E value \in Values : CanCall /\ push_back_move(value)
    \/ \E value \in Values : CanCall /\ emplace_back(value)
    \/ CanCall /\ pop_back
    \/ CanCall /\ clear
    \/ \E new_cap \in 0..MaxReserve : CanCall /\ reserve(new_cap)
    \/ \E new_size \in 0..MaxSize, value \in Values : CanCall /\ resize(new_size, value)
    \/ \E index \in Indexes, new_value \in Values : CanCall /\ update_if_exists(index, new_value)
    \/ \E index \in Indexes : CanCall /\ erase(index)

Spec == Init /\ [][Next]_vars

\* callers that read and write elements in place, and grow and shrink at the end
AccessNext ==
    \/ CanCall /\ empty
    \/ CanCall /\ size
    \/ CanCall /\ capacity
    \/ \E i \in Indexes : CanCall /\ subscript_read(i)
    \/ \E i \in Indexes, value \in Values : CanCall /\ subscript_write(i, value)
    \/ \E i \in Indexes : CanCall /\ at_read(i)
    \/ \E i \in Indexes, value \in Values : CanCall /\ at_write(i, value)
    \/ \E value \in Values : CanCall /\ push_back(value, None)
    \/ CanCall /\ pop_back
    \/ CanCall /\ clear

AccessSpec == Init /\ [][AccessNext]_vars

\* the usage scenario's world: an empty vector, and calls over the scenario's
\* values and indexes, Len(Scenario) calls long
ScenInit ==
    /\ Init
    /\ last.op = "ReactiveVector()"

ScenIndexes == 0..1

InScenario == Len(events) < Len(Scenario)

ScenNextStep ==
    \/ \E value \in ScenValues : InScenario /\ push_back(value, None)
    \/ InScenario /\ pop_back
    \/ InScenario /\ clear
    \/ \E new_cap \in 0..MaxReserve : InScenario /\ reserve(new_cap)
    \/ \E new_size \in 0..MaxSize : InScenario /\ resize(new_size, DefaultValue)
    \/ \E index \in ScenIndexes, new_value \in ScenValues :
          InScenario /\ update_if_exists(index, new_value)
    \/ \E index \in ScenIndexes : InScenario /\ erase(index)

ScenarioSpec == ScenInit /\ [][ScenNextStep]_vars

\* callers that start from n default elements and also grow the vector by
\* resize, past the sizes push_back is used for
GrowInit ==
    /\ Init
    /\ last.op = "ReactiveVector(n, value)"
    /\ last.value = DefaultValue

GrowValues == {DefaultValue, 7}

GrowNext ==
    \/ \E value \in GrowValues : CanCall /\ push_back(value, None)
    \/ \E value \in GrowValues : CanCall /\ push_back_move(value)
    \/ \E value \in GrowValues : CanCall /\ emplace_back(value)
    \/ CanCall /\ pop_back
    \/ CanCall /\ clear
    \/ \E new_cap \in 0..MaxReserve : CanCall /\ reserve(new_cap)
    \/ \E new_size \in 0..(MaxSize + 2), value \in GrowValues :
          CanCall /\ resize(new_size, value)
    \/ \E index \in Indexes, new_value \in GrowValues :
          CanCall /\ update_if_exists(index, new_value)
    \/ \E index \in Indexes : CanCall /\ erase(index)

GrowSpec == GrowInit /\ [][GrowNext]_vars

\* callers that use every named mutating operation except resize, and never
\* write through at or operator[]
MirrorNext ==
    \/ \E value \in Values, src \in {None} \cup Indexes : CanCall /\ push_back(value, src)
    \/ \E value \in Values : CanCall /\ push_back_move(value)
    \/ \E value \in Values : CanCall /\ emplace_back(value)
    \/ CanCall /\ pop_back
    \/ CanCall /\ clear
    \/ \E new_cap \in 0..MaxReserve : CanCall /\ reserve(new_cap)
    \/ \E index \in Indexes, new_value \in Values : CanCall /\ update_if_exists(index, new_value)
    \/ \E index \in Indexes : CanCall /\ erase(index)

MirrorSpec == Init /\ [][MirrorNext]_vars

\* ---------------------------------------------------------------- properties
\* what the last call found, and what it emitted
old_vec == last.pre.vec

LogKept == Len(last.pre.events) <= Len(events)
           /\ SubSeq(events, 1, Len(last.pre.events)) = last.pre.events

Emitted == SubSeq(events, Len(last.pre.events) + 1, Len(events))

EmittedNothing == events = last.pre.events

EmittedOne == LogKept /\ Len(Emitted) = 1

\* elements 0 .. n-1 are where and what they were
SamePrefix(n) == \A j \in 1..n : vec_[j] = old_vec[j]

Unchanged == vec_ = old_vec /\ cap = last.pre.cap

\* C1: every push_back(v) (either overload) and emplace_back constructing v
\* grows size by exactly 1, keeps every earlier element, makes v the last
\* element and emits exactly one Inserted{index = old size, value = v};
\* emplace_back returns the new last element.
C1_PushBackInserts ==
    last.op \in {"push_back", "emplace_back"} =>
        /\ Len(vec_) = Len(old_vec) + 1
        /\ SamePrefix(Len(old_vec))
        /\ vec_[Len(vec_)] = last.value
        /\ EmittedOne
        /\ Emitted[1].kind = "Inserted"
        /\ Emitted[1].index = Len(old_vec)
        /\ Emitted[1].index = Len(vec_) - 1
        /\ Emitted[1].value = last.value
        /\ (last.op = "emplace_back" => last.ret = vec_[Len(vec_)])

\* C2: pop_back() on a non-empty vector shrinks size by exactly 1, keeps the
\* remaining elements and emits exactly one Erased{old size - 1, removed
\* element}; on an empty vector it emits nothing and size stays 0.
C2_PopBack ==
    last.op = "pop_back" =>
        IF old_vec = <<>>
        THEN Len(vec_) = 0 /\ EmittedNothing
        ELSE /\ Len(vec_) = Len(old_vec) - 1
             /\ SamePrefix(Len(vec_))
             /\ EmittedOne
             /\ Emitted[1].kind = "Erased"
             /\ Emitted[1].index = Len(old_vec) - 1
             /\ Emitted[1].old_value = old_vec[Len(old_vec)]

C2_Witness ==
    /\ last.op = "pop_back"
    /\ Len(old_vec) >= 2
    /\ old_vec[Len(old_vec)] # old_vec[Len(old_vec) - 1]
    /\ Len(events) = 1

\* C3: update_if_exists(i, v) returns false, emits nothing and changes nothing
\* when i >= size; when i < size it returns true, replaces element i by v,
\* keeps size and every other element, and emits exactly one
\* Updated{i, old, v} (also when v = old).  It never throws.
C3_UpdateIfExists ==
    last.op = "update_if_exists" =>
        /\ ~last.threw
        /\ IF last.index >= Len(old_vec)
           THEN ~last.retb /\ Unchanged /\ EmittedNothing
           ELSE /\ last.retb
                /\ Len(vec_) = Len(old_vec)
                /\ \A j \in 1..Len(vec_) :
                     vec_[j] = IF j = last.index + 1 THEN last.value ELSE old_vec[j]
                /\ EmittedOne
                /\ Emitted[1].kind = "Updated"
                /\ Emitted[1].index = last.index
                /\ Emitted[1].old_value = old_vec[last.index + 1]
                /\ Emitted[1].new_value = last.value

C3_Witness ==
    /\ last.op = "update_if_exists"
    /\ last.retb
    /\ Len(old_vec) >= 2
    /\ last.value # old_vec[last.index + 1]

\* C4: resize(n, fill) leaves size exactly n.  Growing keeps the old elements,
\* fills the n - old size new slots with fill and emits one Resized{old, n};
\* shrinking keeps the first n elements and emits one Resized{old, n};
\* n = size emits nothing and changes nothing.
C4_Resize ==
    last.op = "resize" =>
        /\ Len(vec_) = last.n
        /\ \A j \in 1..Len(vec_) :
             vec_[j] = IF j <= Len(old_vec) THEN old_vec[j] ELSE last.value
        /\ IF last.n = Len(old_vec)
           THEN Unchanged /\ EmittedNothing
           ELSE /\ EmittedOne
                /\ Emitted[1] = [kind |-> "Resized", old_size |-> Len(old_vec),
                                 new_size |-> last.n]

C4_Witness ==
    /\ last.op = "resize"
    /\ Len(old_vec) >= 1
    /\ last.n >= Len(old_vec) + 2
    /\ last.value # old_vec[Len(old_vec)]

\* C5: clear() on a non-empty vector leaves size 0 and emits exactly one
\* Cleared (however many elements went, and no Erased); on an empty vector it
\* emits nothing.
C5_Clear ==
    last.op = "clear" =>
        /\ vec_ = <<>>
        /\ IF old_vec # <<>>
           THEN EmittedOne /\ Emitted[1].kind = "Cleared"
           ELSE EmittedNothing

C5_Witness ==
    /\ last.op = "clear"
    /\ Len(old_vec) >= 2
    /\ Len(events) = 1

\* C6: reserve(n) keeps size and elements, never lowers the capacity and
\* leaves capacity >= n; it emits exactly one Reserved{resulting capacity}
\* if and only if the capacity changed, so reserve(n) with n <= capacity
\* emits nothing (reserve(a) then reserve(b), b <= a: only the first emits).
C6_Reserve ==
    last.op = "reserve" =>
        /\ vec_ = old_vec
        /\ cap >= last.pre.cap
        /\ cap >= last.n
        /\ IF cap # last.pre.cap
           THEN /\ EmittedOne
                /\ Emitted[1] = [kind |-> "Reserved", new_capacity |-> cap]
                /\ Emitted[1].new_capacity >= last.n
           ELSE EmittedNothing
        /\ (last.n <= last.pre.cap => EmittedNothing)

\* reserve(a) emitted Reserved, and the following reserve(b), b < a, did not
C6_Witness ==
    /\ last.op = "reserve"
    /\ Len(events) = 1
    /\ events[1].kind = "Reserved"
    /\ last.pre.events = events
    /\ last.n > 0
    /\ last.n < events[1].new_capacity

\* C7: erase(position of live element k) shrinks size by exactly 1, keeps the
\* elements below k, moves each element j > k to j - 1, emits exactly one
\* Erased{k, element formerly at k} and returns the position after the erased
\* element (index k, which is end() when the last element was erased).
C7_Erase ==
    last.op = "erase" =>
        /\ Len(vec_) = Len(old_vec) - 1
        /\ \A j \in 0..(Len(old_vec) - 1) :
             /\ (j < last.index => vec_[j + 1] = old_vec[j + 1])
             /\ (j > last.index => vec_[j] = old_vec[j + 1])
        /\ EmittedOne
        /\ Emitted[1].kind = "Erased"
        /\ Emitted[1].index = last.index
        /\ Emitted[1].old_value = old_vec[last.index + 1]
        /\ last.ret = last.index
        /\ (last.index = Len(old_vec) - 1 => last.ret = Len(vec_))

C7_Witness ==
    /\ last.op = "erase"
    /\ Len(old_vec) = 3
    /\ last.index = 1
    /\ old_vec[1] # old_vec[2]
    /\ old_vec[2] # old_vec[3]

\* the signals the usage scenario emits, in order
ScenarioEvents ==
    << [kind |-> "Inserted", index |-> 0, value |-> 1, valid |-> TRUE],
       [kind |-> "Inserted", index |-> 1, value |-> 2, valid |-> TRUE],
       [kind |-> "Updated", index |-> 0, old_value |-> 1, new_value |-> 9, valid |-> TRUE],
       [kind |-> "Erased", index |-> 1, old_value |-> 2, valid |-> TRUE] >>

\* C8: signals are delivered one at a time in the order of the calls that
\* caused them: a call leaves the signals of the earlier calls in place and
\* adds at most its own at the end, with no batching, coalescing or
\* cancellation.  From an empty vector, push_back(1), push_back(2),
\* update_if_exists(0, 9), pop_back() ends with contents [9] and the signals
\* Inserted(0,1), Inserted(1,2), Updated(0,1,9), Erased(1,2).
C8_EventOrder ==
    /\ LogKept
    /\ Len(Emitted) <= 1
    /\ scen # None => events = SubSeq(ScenarioEvents, 1, scen)
    /\ scen = Len(Scenario) => vec_ = <<9>>

C8_Witness == scen = Len(Scenario)

\* the named mutating operations
MutatingOps ==
    {"push_back", "emplace_back", "pop_back", "clear", "reserve", "resize",
     "update_if_exists", "erase"}

\* C9: every call of a named mutating operation emits exactly one signal or
\* none, and none only when it leaves elements, size and capacity unchanged
\* (so a call that changes any of them emits exactly one).
C9_OneEventOrNone ==
    last.op \in MutatingOps =>
        /\ LogKept
        /\ Len(Emitted) \in {0, 1}
        /\ (Len(Emitted) = 0 => Unchanged)
        /\ (~Unchanged => Len(Emitted) = 1)

\* a shrinking resize: size changes, capacity does not
C9_Witness ==
    /\ last.op = "resize"
    /\ last.n < Len(old_vec)
    /\ cap = last.pre.cap
    /\ Len(Emitted) = 1

\* the pure reads and element reads, and the element writes
ReadOps == {"empty", "size", "capacity", "operator[]", "at"}

WriteOps == {"operator[]=", "at="}

\* C10: empty, size, capacity and element access through at or operator[],
\* reading or writing, emit nothing; an in-range write changes only the
\* addressed element and leaves size, capacity and the other elements alone.
C10_AccessIsSilent ==
    /\ last.op \in ReadOps => EmittedNothing /\ Unchanged
    /\ last.op \in WriteOps =>
         /\ EmittedNothing
         /\ cap = last.pre.cap
         /\ Len(vec_) = Len(old_vec)
         /\ (last.index < Len(old_vec) =>
               \A j \in 1..Len(vec_) :
                 vec_[j] = IF j = last.index + 1 THEN last.value ELSE old_vec[j])

\* a subscript write that changes an element after a signal was emitted
C10_Witness ==
    /\ last.op = "operator[]="
    /\ Len(old_vec) >= 2
    /\ last.value # old_vec[last.index + 1]
    /\ vec_ # old_vec
    /\ Len(events) >= 1

\* the one signal kind each named operation may emit
KindOf(op) ==
    CASE op \in {"push_back", "emplace_back"} -> "Inserted"
      [] op \in {"pop_back", "erase"} -> "Erased"
      [] op = "update_if_exists" -> "Updated"
      [] op = "clear" -> "Cleared"
      [] op = "resize" -> "Resized"
      [] op = "reserve" -> "Reserved"

\* C11: each operation emits only its own kind of signal: Inserted comes only
\* from push_back and emplace_back, Erased only from pop_back and erase,
\* Updated only from update_if_exists, Cleared only from clear, Resized only
\* from resize, Reserved only from reserve; so a growing resize emits no
\* Inserted, a shrinking one no Erased, and a push_back, emplace_back or
\* resize that changes the capacity no Reserved.  Three default elements then
\* resize(5, 7) gives [default, default, default, 7, 7] and one Resized(3, 5).
C11_OwnKindOnly ==
    /\ last.op \in MutatingOps =>
         /\ LogKept
         /\ \A k \in 1..Len(Emitted) : Emitted[k].kind = KindOf(last.op)
    /\ (/\ last.op = "resize"
        /\ old_vec = <<DefaultValue, DefaultValue, DefaultValue>>
        /\ last.pre.events = <<>>
        /\ last.n = 5
        /\ last.value = 7)
       => /\ vec_ = <<DefaultValue, DefaultValue, DefaultValue, 7, 7>>
          /\ events = <<[kind |-> "Resized", old_size |-> 3, new_size |-> 5]>>

\* resize(5, 7) on three default elements, reallocating
C11_Witness ==
    /\ last.op = "resize"
    /\ old_vec = <<DefaultValue, DefaultValue, DefaultValue>>
    /\ last.pre.events = <<>>
    /\ last.n = 5
    /\ last.value = 7
    /\ cap # last.pre.cap
    /\ Len(vec_) = 5

\* C12: at(i) throws std::out_of_range for every i >= size (any i on an empty
\* vector) and succeeds for every i < size; a throwing at(i) emits nothing
\* and leaves elements, size and capacity unchanged.
C12_AtIsChecked ==
    last.op \in {"at", "at="} =>
        /\ last.threw <=> last.index >= Len(old_vec)
        /\ last.threw => Unchanged /\ EmittedNothing
        /\ (last.op = "at" /\ ~last.threw) => last.ret = old_vec[last.index + 1]

\* at(size()) = value on a non-empty vector threw
C12_Witness ==
    /\ last.op = "at="
    /\ last.threw
    /\ old_vec # <<>>
    /\ last.index = Len(old_vec)
    /\ Len(events) >= 1

\* C13: construction emits nothing: ReactiveVector() is empty,
\* ReactiveVector(n, value) holds exactly n elements equal to value,
\* ReactiveVector(init) holds exactly the listed values in their order, and
\* after each the signal log is empty; the first signal is the one of the
\* first effective mutating call.
C13_ConstructionIsSilent ==
    /\ last.op = "ReactiveVector()" => vec_ = <<>> /\ events = <<>>
    /\ last.op = "ReactiveVector(n, value)" =>
         /\ Len(vec_) = last.n
         /\ \A j \in 1..Len(vec_) : vec_[j] = last.value
         /\ events = <<>>
    /\ last.op = "ReactiveVector(init)" => vec_ = last.init /\ events = <<>>
    /\ (last.pre.events = <<>> /\ events # <<>>) =>
         /\ last.op \in MutatingOps
         /\ Len(events) = 1
         /\ events[1].kind = KindOf(last.op)

\* three elements of a value other than T()
C13_Witness ==
    /\ last.op = "ReactiveVector(n, value)"
    /\ last.n = 3
    /\ last.value # DefaultValue
    /\ Len(vec_) = 3

\* C14: in every state reachable from any constructor by any calls,
\* capacity >= size.
C14_CapacityCoversSize == cap >= Len(vec_)

\* a push_back that reallocated to an exact fit
C14_Witness ==
    /\ last.op = "push_back"
    /\ cap # last.pre.cap
    /\ cap = Len(vec_)
    /\ Len(vec_) = MaxSize

\* the last call neither cleared, nor inserted or removed at or before the
\* 0-based index i, nor updated element i
KeepsIndex(i) ==
    \/ last.op \in {"push_back", "emplace_back", "reserve"}
    \/ last.op = "resize" /\ last.n > i
    \/ last.op = "pop_back" /\ i < Len(old_vec) - 1
    \/ last.op = "erase" /\ last.index > i
    \/ last.op = "update_if_exists" /\ last.index # i
    \/ last.op \in MutatingOps /\ Unchanged /\ EmittedNothing

\* C15: indices are stable: for every index i and every call that neither
\* clears nor inserts or removes at or before i (push_back, emplace_back,
\* reserve, resize to n > i, pop_back when i < size - 1, erase at j > i,
\* update_if_exists at another index, any no-op or failing call), element i
\* has the same value after the call as before it.
C15_IndicesStable ==
    \A i \in 0..(Len(old_vec) - 1) :
        KeepsIndex(i) => i < Len(vec_) /\ vec_[i + 1] = old_vec[i + 1]

\* the last of three elements was erased, the first two differ and stay
C15_Witness ==
    /\ last.op = "erase"
    /\ Len(old_vec) = 3
    /\ last.index = 2
    /\ old_vec[1] # old_vec[2]
    /\ Len(events) = 2

\* the signal kinds that carry element values by reference
ValueKinds == {"Inserted", "Updated", "Erased"}

\* C16: every value an emitted signal carries (Inserted.value,
\* Updated.old_value, Updated.new_value, Erased.old_value) is, while emit()
\* runs, an owned copy or a reference to a live object holding the described
\* value, for every operation and argument, push_back(v[i]) with a
\* reallocating append included.
C16_PayloadIsLive ==
    /\ \A k \in 1..Len(events) : events[k].kind \in ValueKinds => events[k].valid
    /\ (last.op \in {"push_back", "emplace_back"} /\ LogKept /\ Len(Emitted) = 1) =>
         Emitted[1].value = last.value

\* C17: mutation precedes emission: when a signal is handed to emit() the
\* vector already shows the change it describes.  Inserted{i, v}: size =
\* i + 1 and element i = v; Erased{i, old}: size = old size - 1 and the
\* removed element is gone; Updated{i, old, new}: element i = new; Cleared:
\* size = 0; Resized{old, new}: size = new; Reserved{c}: capacity = c.
\* (emit() is the last statement of every method that touches the vector,
\* so the state at emit() is the state the call leaves.)
C17_MutationPrecedesEmission ==
    (last.op \in MutatingOps /\ LogKept /\ Len(Emitted) = 1) =>
        LET e == Emitted[1]
        IN CASE e.kind = "Inserted" ->
                  Len(vec_) = e.index + 1 /\ vec_[e.index + 1] = e.value
             [] e.kind = "Erased" ->
                  /\ Len(vec_) = Len(old_vec) - 1
                  /\ \A j \in 1..Len(vec_) :
                       vec_[j] = IF j <= e.index THEN old_vec[j] ELSE old_vec[j + 1]
             [] e.kind = "Updated" -> vec_[e.index + 1] = e.new_value
             [] e.kind = "Cleared" -> Len(vec_) = 0
             [] e.kind = "Resized" -> Len(vec_) = e.new_size
             [] e.kind = "Reserved" -> cap = e.new_capacity

\* C18: an observer that starts from the constructed contents and replays
\* only the signals it receives (Inserted{i, v}: insert v at i; Updated{i, _,
\* v}: set element i; Erased{i, _}: remove element i; Cleared: empty) holds,
\* after every call, a copy equal to the contents, for every sequence of
\* push_back, emplace_back, pop_back, clear, reserve, update_if_exists and
\* erase calls; and its copy of the size (Inserted +1, Erased -1, Cleared 0,
\* Resized{_, n} n) equals size().
C18_MirrorTracksContents ==
    /\ mirror = vec_
    /\ size_mirror = Len(vec_)

\* the size half of C18 alone, which also holds when resize is called
SizeMirrorTracksSize == size_mirror = Len(vec_)

\* the contents half of C18 for calls whose argument is no element of the vector
MirrorTracksUnaliased ==
    (\A k \in 1..Len(events) : events[k].kind = "Inserted" => events[k].valid)
        => mirror = vec_

====
